---- MODULE Spec2Model ----
(***************************************************************************)
(* Kleos: the MindsDB handler (connection manager, statement execution,    *)
(* resource operations) and the commands built on it.                      *)
(*                                                                         *)
(* The handler is single-threaded.  Every handler method is modelled as an *)
(* operator from the handler's world (session handles, what the remote     *)
(* server holds, what was sent so far) to the SET of its possible          *)
(* outcomes: the nondeterminism is what the SDK and the server answer.     *)
(* An outcome either returns a value or raises an exception, as in Python. *)
(***************************************************************************)
EXTENDS Integers, Sequences, FiniteSets, TLC

VARIABLES server, project, dbs, kbs, listingCol, last

vars == <<server, project, dbs, kbs, listingCol, last>>

(***************************************************************************)
(* Bounds of the model.                                                    *)
(***************************************************************************)
\* how many round trips of one operation can fail for a reason other than
\* the server refusing to create what it already holds
MaxFaults == 2
\* the longest list of names handed to a statement builder
MaxList == 3
\* the longest text of an option value, in characters
MaxStrLen == 2
\* the most rows of a describe result
MaxRows == 3

(***************************************************************************)
(* Python values.                                                          *)
(***************************************************************************)
None == "None"

DsNames == {"hackernews", "hn_data"}
KbNames == {"kb1", "kb2"}
ModelName == "m1"
ProjectArgs == {None, "p"}

\* a DataFrame: column names and rows (each row aligned with the columns)
EmptyDf == [cols |-> <<>>, rows |-> <<>>]
DfEmpty(df) == Len(df.rows) = 0 \/ Len(df.cols) = 0
HasCol(df, c) == \E i \in 1..Len(df.cols) : df.cols[i] = c
ColIndex(df, c) == CHOOSE i \in 1..Len(df.cols) : df.cols[i] = c
ColValues(df, c) == {df.rows[r][ColIndex(df, c)] : r \in 1..Len(df.rows)}

\* return values of the handler's methods
PyNone == [t |-> "none", b |-> FALSE, df |-> EmptyDf, s |-> ""]
PyBool(x) == [t |-> "bool", b |-> x, df |-> EmptyDf, s |-> ""]
PyDf(d) == [t |-> "df", b |-> FALSE, df |-> d, s |-> ""]
PyStr(x) == [t |-> "str", b |-> FALSE, df |-> EmptyDf, s |-> x]
PyDict(d) == [t |-> "dict", b |-> FALSE, df |-> d, s |-> ""]
PyTrue == PyBool(TRUE)
PyFalse == PyBool(FALSE)

(***************************************************************************)
(* Exceptions: a type and a message.  A message is the sequence of its     *)
(* words; the word QUERY_TEXT stands for the text of the statement.        *)
(***************************************************************************)
NoExc == [type |-> "none", msg |-> <<>>]
Exc(t, m) == [type |-> t, msg |-> m]

\* str.lower() on the words the messages are made of
LowerWord(wd) ==
    CASE wd = "Already" -> "already"
      [] wd = "Exists" -> "exists"
      [] wd = "Not" -> "not"
      [] wd = "Found" -> "found"
      [] wd = "Event" -> "event"
      [] wd = "Database" -> "database"
      [] wd = "Model" -> "model"
      [] wd = "Job" -> "job"
      [] wd = "Agent" -> "agent"
      [] wd = "Connection" -> "connection"
      [] wd = "MindsDB" -> "mindsdb"
      [] wd = "Cannot" -> "cannot"
      [] wd = "KnowledgeBase" -> "knowledgebase"
      [] wd = "M1" -> "m1"
      [] wd = "M2" -> "m2"
      [] OTHER -> wd
Lower(m) == [i \in 1..Len(m) |-> LowerWord(m[i])]

\* Python's `pat in text`, on word sequences
Contains(m, pat) ==
    \E i \in 0..(Len(m) - Len(pat)) :
        \A j \in 1..Len(pat) : m[i + j] = pat[j]

EventLoopClosed == <<"Event", "loop", "is", "closed">>
NotEstablished ==
    Exc("ConnectionError",
        <<"MindsDB", "connection", "not", "established.", "Cannot", "execute", "query.">>)

\* except RuntimeError: catches RuntimeError (and its subclasses) only
IsRuntimeError(e) == e.type = "RuntimeError"

(***************************************************************************)
(* The handler's world while one operation runs.                           *)
(*   server, project : the session handles (None when cleared)             *)
(*   dbs, kbs        : the datasources and knowledge bases on the server   *)
(*   col             : the column the server lists database names under    *)
(*   sent            : the statements sent so far, each with the answer    *)
(*   conn            : the results of the connect() calls made so far      *)
(*   faults          : the round trips that failed so far                  *)
(***************************************************************************)
Ret(w, v) == [w |-> w, raised |-> FALSE, val |-> v, exc |-> NoExc]
Raise(w, e) == [w |-> w, raised |-> TRUE, val |-> PyNone, exc |-> e]

Stmt(k, n) == [kind |-> k, name |-> n]

(***************************************************************************)
(* connect(): the SDK either raises, returns no server object, or returns  *)
(* one; get_project() either raises, returns no project, or returns one.   *)
(***************************************************************************)
ConnectOutcomes ==
    {"ok", "connect_raises", "server_none", "get_project_raises", "project_none"}

\* connect() that returns False on a failure without clearing the handles
connect_NoClear(w, c) ==
    LET failed(x) == [x EXCEPT !.conn = Append(x.conn, FALSE)]
    IN  IF c = "connect_raises" THEN Ret(failed(w), PyFalse)
        ELSE LET w1 == [w EXCEPT !.server = IF c = "server_none" THEN None ELSE "srv"]
             IN  IF w1.server = None THEN Ret(failed(w1), PyFalse)
                 ELSE IF c = "get_project_raises" THEN Ret(failed(w1), PyFalse)
                 ELSE LET w2 == [w1 EXCEPT !.project =
                                     IF c = "project_none" THEN None ELSE "proj"]
                      IN  IF w2.project = None THEN Ret(failed(w2), PyFalse)
                          ELSE Ret([w2 EXCEPT !.conn = Append(w2.conn, TRUE)], PyTrue)

\* connect() that clears only the project handle on a failure
connect_KeepServer(w, c) ==
    LET cleared(x) == [x EXCEPT !.project = None, !.conn = Append(x.conn, FALSE)]
    IN  IF c = "connect_raises" THEN Ret(cleared(w), PyFalse)
        ELSE LET w1 == [w EXCEPT !.server = IF c = "server_none" THEN None ELSE "srv"]
             IN  IF w1.server = None THEN Ret(cleared(w1), PyFalse)
                 ELSE IF c = "get_project_raises" THEN Ret(cleared(w1), PyFalse)
                 ELSE LET w2 == [w1 EXCEPT !.project =
                                     IF c = "project_none" THEN None ELSE "proj"]
                      IN  IF w2.project = None THEN Ret(cleared(w2), PyFalse)
                          ELSE Ret([w2 EXCEPT !.conn = Append(w2.conn, TRUE)], PyTrue)

connect(w, c) ==
    LET cleared(x) == [x EXCEPT !.server = None, !.project = None,
                                !.conn = Append(x.conn, FALSE)]
    IN  IF c = "connect_raises" THEN Ret(cleared(w), PyFalse)
        ELSE LET w1 == [w EXCEPT !.server = IF c = "server_none" THEN None ELSE "srv"]
             IN  IF w1.server = None THEN Ret(cleared(w1), PyFalse)
                 ELSE IF c = "get_project_raises" THEN Ret(cleared(w1), PyFalse)
                 ELSE LET w2 == [w1 EXCEPT !.project =
                                     IF c = "project_none" THEN None ELSE "proj"]
                      IN  IF w2.project = None THEN Ret(cleared(w2), PyFalse)
                          ELSE Ret([w2 EXCEPT !.conn = Append(w2.conn, TRUE)], PyTrue)

(***************************************************************************)
(* The remote server behind project.query(q).fetch().                      *)
(* Any statement can fail in the transport; otherwise the server answers   *)
(* from what it holds: a CREATE of something that exists is refused with   *)
(* an "already exists" error, a catalog listing shows the databases under  *)
(* the column name of the server's version.                                *)
(***************************************************************************)
TransportFaults ==
    { Exc("RuntimeError", EventLoopClosed),
      Exc("RuntimeError", <<"cannot", "schedule", "new", "futures">>),
      Exc("ConnectionError", <<"Connection", "refused">>) }

CreateKinds == {"CREATE_MODEL", "CREATE_AGENT", "CREATE_JOB", "CREATE_JOB_SCHEDULE"}
DropKinds == {"DROP_MODEL", "DROP_JOB"}
DdlKinds == CreateKinds \cup DropKinds \cup
            {"CREATE_DATABASE", "CREATE_KB", "CREATE_INDEX", "INSERT_KB", "RETRAIN"}
DescribeKinds == {"DESCRIBE_QUALIFIED", "DESCRIBE"}

\* the server refuses to create what it already holds
Refusals(w, q) ==
    CASE q.kind = "CREATE_DATABASE" /\ q.name \in w.dbs ->
            {Exc("Exception", <<"Database", "already", "exists">>)}
      [] q.kind = "CREATE_KB" /\ q.name \in w.kbs ->
            {Exc("Exception", <<"KnowledgeBase", "already", "exists">>),
             Exc("Exception", <<"KnowledgeBase", "Already", "Exists">>)}
      [] OTHER -> {}

\* the other errors the server answers with, by statement
ServerErrors(q) ==
    CASE q.kind \in {"CREATE_DATABASE", "CREATE_KB"} -> {}
      [] q.kind \in CreateKinds ->
            {Exc("Exception", <<"Resource", "already", "exists">>),
             Exc("Exception", <<"syntax", "error", "in", "QUERY_TEXT">>)}
      [] q.kind \in DropKinds ->
            {Exc("Exception", <<"Resource", "not", "found">>),
             Exc("Exception", <<"Resource", "doesn't", "exist">>)}
      [] OTHER ->
            {Exc("Exception", <<"Table", "not", "found">>)}

\* the failures a round trip can end in
Faults(w, q) ==
    Refusals(w, q) \cup
    (IF w.faults < MaxFaults THEN TransportFaults \cup ServerErrors(q) ELSE {})

RECURSIVE SeqOf(_)
SeqOf(S) == IF S = {} THEN <<>>
            ELSE LET x == CHOOSE y \in S : TRUE IN <<x>> \o SeqOf(S \ {x})

\* SHOW DATABASES: the built-in database and the datasources, one per row
Listing(w) == [cols |-> <<w.col>>,
               rows |-> [i \in 1..(Cardinality(w.dbs) + 1) |->
                            <<(<<"mindsdb">> \o SeqOf(w.dbs))[i]>>]]

\* tables the server can answer with, by statement
ServerTables(w, q) ==
    CASE q.kind = "SHOW_DATABASES" -> {Listing(w)}
      [] q.kind \in DdlKinds -> {EmptyDf}
      [] q.kind = "SHOW_MODELS" ->
            {EmptyDf,
             [cols |-> <<"name">>, rows |-> <<<<ModelName>>>>],
             [cols |-> <<"NAME">>, rows |-> <<<<ModelName>>>>]}
      [] q.kind \in DescribeKinds ->
            {EmptyDf,
             [cols |-> <<"c0", "c1">>, rows |-> <<<<"STATUS", "complete">>>>],
             [cols |-> <<"c0">>, rows |-> <<<<"STATUS">>>>],
             [cols |-> <<"c0", "c1">>, rows |-> <<<<"NAME", ModelName>>>>]}
      [] q.kind = "SELECT_STATUS" ->
            {EmptyDf,
             [cols |-> <<"status">>, rows |-> <<<<"complete">>>>],
             [cols |-> <<"status">>, rows |-> <<<<"error">>>>],
             [cols |-> <<"STATUS">>, rows |-> <<<<"complete">>>>]}
      [] q.kind = "SELECT_AGENT" ->
            {EmptyDf,
             [cols |-> <<"answer">>, rows |-> <<<<"a1">>>>],
             [cols |-> <<"id", "answer">>, rows |-> <<<<"1", "a1">>, <<"2", "a2">>>>],
             [cols |-> <<"response">>, rows |-> <<<<"a1">>>>]}
      [] OTHER ->
            {EmptyDf, [cols |-> <<"name">>, rows |-> <<<<"j1">>>>]}

\* what the server holds after it has executed q
Applied(w, q) ==
    CASE q.kind = "CREATE_DATABASE" -> [w EXCEPT !.dbs = w.dbs \cup {q.name}]
      [] q.kind = "CREATE_KB" -> [w EXCEPT !.kbs = w.kbs \cup {q.name}]
      [] OTHER -> w

Sent(w, q, e) ==
    [w EXCEPT !.sent = Append(w.sent, [stmt |-> q, resp |-> e, df |-> EmptyDf]),
              !.faults = IF e \in Refusals(w, q) \cup {NoExc} THEN w.faults
                         ELSE w.faults + 1]

\* the round trip that was answered with the table t
Fetched(w, q, t) ==
    [w EXCEPT !.sent = Append(w.sent, [stmt |-> q, resp |-> NoExc, df |-> t])]

\* self.project.query(q) ... .fetch(): one round trip.  The statement fails
\* (in the transport or on the server), or it is executed and its table is
\* fetched, or it is executed and the transport fails under the fetch.
project_query(w, q) ==
    { [w |-> Sent(w, q, e), exc |-> e, df |-> EmptyDf] : e \in Faults(w, q) }
    \cup
    IF Refusals(w, q) # {} THEN {}
    ELSE { [w |-> Fetched(Applied(w, q), q, t), exc |-> NoExc, df |-> t]
             : t \in ServerTables(w, q) }
         \cup
         IF w.faults < MaxFaults
         THEN { [w |-> Applied(Sent(w, q, Exc("RuntimeError", EventLoopClosed)), q),
                 exc |-> Exc("RuntimeError", EventLoopClosed), df |-> EmptyDf] }
         ELSE {}

(***************************************************************************)
(* execute_sql(query)                                                      *)
(***************************************************************************)
\* the implicit connect() with its result ignored
Reconnect_IgnoreResult(w) ==
    IF w.project # None THEN {[w |-> w, ok |-> TRUE]}
    ELSE { LET r == connect(w, c) IN [w |-> r.w, ok |-> TRUE]
             : c \in ConnectOutcomes }

\* lines 45-48: one implicit connect() when no project is held
Reconnect(w) ==
    IF w.project # None THEN {[w |-> w, ok |-> TRUE]}
    ELSE { LET r == connect(w, c)
           IN  [w |-> r.w, ok |-> r.val.b /\ r.w.project # None]
             : c \in ConnectOutcomes }

\* a retry on any error at all
IsTransient_Always(e) == TRUE

\* line 56: the transient signature
IsTransient(e) == Contains(e.msg, EventLoopClosed)

\* lines 59-65: the retry
Retry(w, q) ==
    { IF r.exc = NoExc THEN Ret(r.w, PyDf(r.df)) ELSE Raise(r.w, r.exc)
        : r \in project_query(w, q) }

\* lines 50-71
Attempt(w, q) ==
    UNION { IF r.exc = NoExc THEN {Ret(r.w, PyDf(r.df))}
            ELSE IF IsRuntimeError(r.exc)
                 THEN IF IsTransient(r.exc) THEN Retry(r.w, q)
                      ELSE {Raise(r.w, r.exc)}
                 ELSE {Raise(r.w, r.exc)}
              : r \in project_query(w, q) }

execute_sql(w, q) ==
    UNION { IF g.ok THEN Attempt(g.w, q) ELSE {Raise(g.w, NotEstablished)}
              : g \in Reconnect(w) }

(***************************************************************************)
(* Datasources and knowledge bases.                                        *)
(***************************************************************************)
\* the column lookup that does not know the upper-case name
DbColumn_NoUpper(df) ==
    IF HasCol(df, "Database") THEN "Database"
    ELSE IF HasCol(df, "name") THEN "name"
    ELSE None

\* lines 83-89: the first accepted column name present, None when absent
DbColumn(df) ==
    IF HasCol(df, "Database") THEN "Database"
    ELSE IF HasCol(df, "name") THEN "name"
    ELSE IF HasCol(df, "NAME") THEN "NAME"
    ELSE None

\* the catalog check without its try/except
get_database_custom_check_NoCatch(w, ds_name) ==
    IF w.project = None THEN {Ret(w, PyFalse)}
    ELSE { IF o.raised THEN o
           ELSE IF DfEmpty(o.val.df) THEN Ret(o.w, PyFalse)
           ELSE IF DbColumn(o.val.df) = None THEN Ret(o.w, PyFalse)
           ELSE Ret(o.w, PyBool(ds_name \in ColValues(o.val.df, DbColumn(o.val.df))))
             : o \in execute_sql(w, Stmt("SHOW_DATABASES", "")) }

get_database_custom_check(w, ds_name) ==
    IF w.project = None THEN {Ret(w, PyFalse)}
    ELSE { IF o.raised THEN Ret(o.w, PyFalse)
           ELSE IF DfEmpty(o.val.df) THEN Ret(o.w, PyFalse)
           ELSE IF DbColumn(o.val.df) = None THEN Ret(o.w, PyFalse)
           ELSE Ret(o.w, PyBool(ds_name \in ColValues(o.val.df, DbColumn(o.val.df))))
             : o \in execute_sql(w, Stmt("SHOW_DATABASES", "")) }

\* line 117: self.project.get_database(ds_name), the SDK's own lookup
project_get_database(w, ds_name) ==
    {Raise(w, e) : e \in (IF w.faults < MaxFaults THEN TransportFaults ELSE {})}
    \cup (IF ds_name \in w.dbs THEN {Ret(w, PyTrue)}
          ELSE {Raise(w, Exc("AttributeError", <<"Database", "doesn't", "exist">>))})

\* lines 111-122: verification after the CREATE DATABASE went through
VerifyCreated(w, ds_name) ==
    UNION { IF c.raised THEN {Ret(c.w, PyFalse)}
            ELSE IF c.val.b THEN {Ret(c.w, PyTrue)}
            ELSE { IF g.raised THEN Ret(g.w, PyFalse) ELSE Ret(g.w, PyBool(g.val.b))
                     : g \in (IF c.w.project # None THEN project_get_database(c.w, ds_name)
                              ELSE {Ret(c.w, PyFalse)}) }
              : c \in get_database_custom_check(w, ds_name) }

\* the creation that reports success whatever the CREATE DATABASE did
create_hackernews_datasource_Optimistic(w, ds_name) ==
    IF w.project = None THEN {Ret(w, PyFalse)}
    ELSE UNION { IF c.val.b THEN {Ret(c.w, PyTrue)}
                 ELSE { Ret(e.w, PyTrue)
                          : e \in execute_sql(c.w, Stmt("CREATE_DATABASE", ds_name)) }
                   : c \in get_database_custom_check(w, ds_name) }

create_hackernews_datasource(w, ds_name) ==
    IF w.project = None THEN {Ret(w, PyFalse)}
    ELSE UNION { IF c.raised THEN {c}
                 ELSE IF c.val.b THEN {Ret(c.w, PyTrue)}
                 ELSE UNION { IF e.raised THEN {Ret(e.w, PyFalse)}
                              ELSE VerifyCreated(e.w, ds_name)
                                : e \in execute_sql(c.w, Stmt("CREATE_DATABASE", ds_name)) }
                   : c \in get_database_custom_check(w, ds_name) }

\* the same test without .lower()
IsAlreadyExists_CaseSensitive(e) == Contains(e.msg, <<"already", "exists">>)

\* "already exists" in str(e).lower()
IsAlreadyExists(e) == Contains(Lower(e.msg), <<"already", "exists">>)
\* "already exists" in err_str or "already created" in err_str
IsAlreadyExistsOrCreated(e) ==
    \/ Contains(Lower(e.msg), <<"already", "exists">>)
    \/ Contains(Lower(e.msg), <<"already", "created">>)
\* "not found" in err_str or "doesn't exist" in err_str
IsNotFound(e) ==
    \/ Contains(Lower(e.msg), <<"not", "found">>)
    \/ Contains(Lower(e.msg), <<"doesn't", "exist">>)

create_knowledge_base(w, kb_name) ==
    IF w.project = None THEN {Ret(w, PyFalse)}
    ELSE { IF ~o.raised THEN Ret(o.w, PyTrue)
           ELSE IF IsAlreadyExists(o.exc) THEN Ret(o.w, PyTrue)
           ELSE Ret(o.w, PyFalse)
             : o \in execute_sql(w, Stmt("CREATE_KB", kb_name)) }

create_index_on_knowledge_base(w, kb_name) ==
    IF w.project = None THEN {Ret(w, PyFalse)}
    ELSE { IF ~o.raised THEN Ret(o.w, PyTrue) ELSE Ret(o.w, PyFalse)
             : o \in execute_sql(w, Stmt("CREATE_INDEX", kb_name)) }

insert_into_knowledge_base_direct(w, kb_name) ==
    IF w.project = None THEN {Ret(w, PyFalse)}
    ELSE { IF ~o.raised THEN Ret(o.w, PyTrue) ELSE Ret(o.w, PyFalse)
             : o \in execute_sql(w, Stmt("INSERT_KB", kb_name)) }

select_from_knowledge_base(w, kb_name) ==
    IF w.project = None THEN {Ret(w, PyNone)}
    ELSE { IF ~o.raised THEN Ret(o.w, o.val) ELSE Ret(o.w, PyNone)
             : o \in execute_sql(w, Stmt("SELECT_KB", kb_name)) }

create_mindsdb_job(w, job_name) ==
    IF w.project = None THEN {Ret(w, PyFalse)}
    ELSE { IF ~o.raised THEN Ret(o.w, PyTrue)
           ELSE IF IsAlreadyExists(o.exc) THEN Ret(o.w, PyTrue)
           ELSE Ret(o.w, PyFalse)
             : o \in execute_sql(w, Stmt("CREATE_JOB_SCHEDULE", job_name)) }

evaluate_knowledge_base(w, kb_name) ==
    IF w.project = None THEN {Ret(w, PyNone)}
    ELSE { IF ~o.raised THEN Ret(o.w, o.val) ELSE Ret(o.w, PyNone)
             : o \in execute_sql(w, Stmt("EVALUATE_KB", kb_name)) }

(***************************************************************************)
(* Models.                                                                 *)
(***************************************************************************)
\* the project a model operation addresses: the argument, else the session's
NoTarget(w, project_name) == w.project = None /\ project_name = None

list_models(w, project_name) ==
    IF NoTarget(w, project_name) THEN {Ret(w, PyNone)}
    ELSE { IF o.raised THEN Ret(o.w, PyNone)
           ELSE IF ~DfEmpty(o.val.df) THEN Ret(o.w, o.val)
           ELSE Ret(o.w, PyDf(EmptyDf))
             : o \in execute_sql(w, Stmt("SHOW_MODELS", "")) }

\* the fallback that reports an empty answer as a failure
DescribeFallback_NoneOnEmpty(w, model_name) ==
    { IF o.raised THEN Ret(o.w, PyNone)
      ELSE IF ~DfEmpty(o.val.df) THEN Ret(o.w, o.val)
      ELSE Ret(o.w, PyNone)
        : o \in execute_sql(w, Stmt("DESCRIBE", model_name)) }

\* lines 396-406: the fallback DESCRIBE run by the except branch
DescribeFallback(w, model_name) ==
    { IF o.raised THEN Ret(o.w, PyNone)
      ELSE IF ~DfEmpty(o.val.df) THEN Ret(o.w, o.val)
      ELSE Ret(o.w, PyDf(EmptyDf))
        : o \in execute_sql(w, Stmt("DESCRIBE", model_name)) }

describe_model(w, model_name, project_name) ==
    IF NoTarget(w, project_name) THEN {Ret(w, PyNone)}
    ELSE UNION {
           IF o.raised THEN DescribeFallback(o.w, model_name)
           ELSE IF ~DfEmpty(o.val.df) THEN {Ret(o.w, o.val)}
           ELSE UNION { IF f.raised THEN DescribeFallback(f.w, model_name)
                        ELSE IF ~DfEmpty(f.val.df) THEN {Ret(f.w, f.val)}
                        ELSE {Ret(f.w, PyDf(EmptyDf))}
                          : f \in execute_sql(o.w, Stmt("DESCRIBE", model_name)) }
             : o \in execute_sql(w, Stmt("DESCRIBE_QUALIFIED", model_name)) }

drop_model(w, model_name, project_name) ==
    IF NoTarget(w, project_name) THEN {Ret(w, PyFalse)}
    ELSE { IF ~o.raised THEN Ret(o.w, PyTrue)
           ELSE IF IsNotFound(o.exc) THEN Ret(o.w, PyTrue)
           ELSE Ret(o.w, PyFalse)
             : o \in execute_sql(w, Stmt("DROP_MODEL", model_name)) }

\* status.lower() in ['training', 'generating', 'complete', 'active']
GoodStatus(st) == st \in {"training", "generating", "complete", "active"}

\* model_desc[model_desc.iloc[:, 0].astype(str).str.upper() == 'STATUS']
StatusRows(df) == SelectSeq(df.rows, LAMBDA r : r[1] = "STATUS")

\* lines 476-485: the status read from the describe output; iloc[0, 1] raises
\* IndexError on a one-column table, which line 486 catches
DescribedStatus(w, d) ==
    IF d.val.t = "df" /\ ~DfEmpty(d.val.df)
    THEN IF Len(StatusRows(d.val.df)) > 0
         THEN IF Len(d.val.df.cols) < 2 THEN Ret(w, PyTrue)
              ELSE IF GoodStatus(StatusRows(d.val.df)[1][2]) THEN Ret(w, PyTrue)
              ELSE Ret(w, PyTrue)
         ELSE Ret(w, PyTrue)
    ELSE Ret(w, PyTrue)

\* the status lookup whose failure fails the refresh
RefreshStatus_Decisive(w, model_name, target_project) ==
    { IF o.raised THEN Ret(o.w, PyFalse)
      ELSE IF ~DfEmpty(o.val.df) /\ HasCol(o.val.df, "status")
           THEN Ret(o.w, PyBool(GoodStatus(o.val.df.rows[1][ColIndex(o.val.df, "status")])))
           ELSE Ret(o.w, PyFalse)
        : o \in execute_sql(w, Stmt("SELECT_STATUS", model_name)) }

\* lines 463-489: the best-effort status lookup
RefreshStatus(w, model_name, target_project) ==
    UNION { IF o.raised THEN {Ret(o.w, PyTrue)}
            ELSE IF ~DfEmpty(o.val.df) /\ HasCol(o.val.df, "status")
                 THEN IF GoodStatus(o.val.df.rows[1][ColIndex(o.val.df, "status")])
                      THEN {Ret(o.w, PyTrue)}
                      ELSE {Ret(o.w, PyTrue)}
                 ELSE { IF d.raised THEN Ret(d.w, PyTrue) ELSE DescribedStatus(d.w, d)
                          : d \in describe_model(o.w, model_name, target_project) }
              : o \in execute_sql(w, Stmt("SELECT_STATUS", model_name)) }

refresh_model(w, model_name, project_name) ==
    IF NoTarget(w, project_name) THEN {Ret(w, PyFalse)}
    ELSE UNION { IF o.raised THEN {Ret(o.w, PyFalse)}
                 ELSE RefreshStatus(o.w, model_name,
                                    IF project_name # None THEN project_name ELSE "mindsdb")
                   : o \in execute_sql(w, Stmt("RETRAIN", model_name)) }

\* lines 622-638: verification after the CREATE MODEL went through
VerifyModel(w, model_name, project_name) ==
    UNION { IF d.raised THEN {Ret(d.w, PyBool(IsAlreadyExistsOrCreated(d.exc)))}
            ELSE IF d.val.t = "df" /\ ~DfEmpty(d.val.df)
                 THEN \* status_row.iloc[0, 1] raises IndexError on a one-column table
                      IF Len(StatusRows(d.val.df)) > 0 /\ Len(d.val.df.cols) < 2
                      THEN {Ret(d.w, PyFalse)}
                      ELSE {Ret(d.w, PyTrue)}
                 ELSE { IF l.raised THEN Ret(l.w, PyBool(IsAlreadyExistsOrCreated(l.exc)))
                        ELSE IF l.val.t = "none" THEN Ret(l.w, PyFalse)
                        \* models_df['name'] raises KeyError without that column
                        ELSE IF ~HasCol(l.val.df, "name") THEN Ret(l.w, PyFalse)
                        ELSE Ret(l.w, PyBool(model_name \in ColValues(l.val.df, "name")))
                          : l \in list_models(d.w, project_name) }
              : d \in describe_model(w, model_name, project_name) }

create_model_from_query(w, model_name, project_name) ==
    IF w.project = None THEN {Ret(w, PyFalse)}
    ELSE UNION { IF o.raised
                 THEN IF IsAlreadyExistsOrCreated(o.exc) THEN {Ret(o.w, PyTrue)}
                      ELSE {Ret(o.w, PyFalse)}
                 ELSE VerifyModel(o.w, model_name, project_name)
                   : o \in execute_sql(w, Stmt("CREATE_MODEL", model_name)) }

(***************************************************************************)
(* Agents.                                                                 *)
(***************************************************************************)
create_kb_agent(w, agent_name, include_knowledge_bases) ==
    IF w.project = None THEN {Ret(w, PyFalse)}
    ELSE IF include_knowledge_bases = {} THEN {Ret(w, PyFalse)}
    ELSE { IF ~o.raised THEN Ret(o.w, PyTrue)
           ELSE IF IsAlreadyExistsOrCreated(o.exc) THEN Ret(o.w, PyTrue)
           ELSE Ret(o.w, PyFalse)
             : o \in execute_sql(w, Stmt("CREATE_AGENT", agent_name)) }

\* the agent query that gives up when the answer column is missing
query_kb_agent_Strict(w, agent_name) ==
    IF w.project = None THEN {Ret(w, PyNone)}
    ELSE { IF o.raised THEN Ret(o.w, PyNone)
           ELSE IF ~DfEmpty(o.val.df)
                THEN IF HasCol(o.val.df, "answer")
                     THEN Ret(o.w, PyStr(o.val.df.rows[1][ColIndex(o.val.df, "answer")]))
                     ELSE Ret(o.w, PyNone)
                ELSE Ret(o.w, PyStr("Agent returned no results."))
             : o \in execute_sql(w, Stmt("SELECT_AGENT", agent_name)) }

query_kb_agent(w, agent_name) ==
    IF w.project = None THEN {Ret(w, PyNone)}
    ELSE { IF o.raised THEN Ret(o.w, PyNone)
           ELSE IF ~DfEmpty(o.val.df)
                THEN IF HasCol(o.val.df, "answer")
                     THEN Ret(o.w, PyStr(o.val.df.rows[1][ColIndex(o.val.df, "answer")]))
                     ELSE Ret(o.w, PyDict([cols |-> o.val.df.cols,
                                           rows |-> <<o.val.df.rows[1]>>]))
                ELSE Ret(o.w, PyStr("Agent returned no results."))
             : o \in execute_sql(w, Stmt("SELECT_AGENT", agent_name)) }

(***************************************************************************)
(* Jobs.                                                                   *)
(***************************************************************************)
create_job(w, job_name) ==
    IF w.project = None THEN {Ret(w, PyFalse)}
    ELSE { IF ~o.raised THEN Ret(o.w, PyTrue) ELSE Ret(o.w, PyFalse)
             : o \in execute_sql(w, Stmt("CREATE_JOB", job_name)) }

update_hackernews_db(w, job_name) ==
    IF w.project = None THEN {Ret(w, PyFalse)}
    ELSE create_job(w, job_name)

\* result if it has rows, None otherwise or when the statement raised
RowsOrNone(w, q) ==
    { IF o.raised THEN Ret(o.w, PyNone)
      ELSE IF ~DfEmpty(o.val.df) THEN Ret(o.w, o.val)
      ELSE Ret(o.w, PyNone)
        : o \in execute_sql(w, q) }

list_jobs(w, project_name) ==
    IF w.project = None THEN {Ret(w, PyNone)}
    ELSE RowsOrNone(w, IF project_name # None THEN Stmt("SELECT_JOBS", project_name)
                       ELSE Stmt("SHOW_JOBS", ""))

get_job_status(w, job_name) ==
    IF w.project = None THEN {Ret(w, PyNone)}
    ELSE RowsOrNone(w, Stmt("SELECT_JOB_STATUS", job_name))

get_job_history(w, job_name) ==
    IF w.project = None THEN {Ret(w, PyNone)}
    ELSE RowsOrNone(w, Stmt("SELECT_JOB_HISTORY", job_name))

\* lines 953-957: the log tables tried in turn
JobLogQueries(job_name) ==
    << Stmt("SELECT_LOG_JOBS", job_name),
       Stmt("SELECT_INFO_JOBS", job_name),
       Stmt("SELECT_PROJECT_JOBS", job_name) >>

\* lines 959-970: the loop from query i on
RECURSIVE JobLogsFrom(_, _, _)
JobLogsFrom(w, job_name, i) ==
    IF i > Len(JobLogQueries(job_name)) THEN {Ret(w, PyNone)}
    ELSE UNION { IF ~o.raised /\ ~DfEmpty(o.val.df) THEN {Ret(o.w, o.val)}
                 ELSE JobLogsFrom(o.w, job_name, i + 1)
                   : o \in execute_sql(w, JobLogQueries(job_name)[i]) }

get_job_logs(w, job_name) ==
    IF w.project = None THEN {Ret(w, PyNone)}
    ELSE JobLogsFrom(w, job_name, 1)

drop_job(w, job_name) ==
    IF w.project = None THEN {Ret(w, PyFalse)}
    ELSE { IF ~o.raised THEN Ret(o.w, PyTrue) ELSE Ret(o.w, PyFalse)
             : o \in execute_sql(w, Stmt("DROP_JOB", job_name)) }

(***************************************************************************)
(* Commands.                                                               *)
(***************************************************************************)
\* utils.get_handler_and_console: connects when no project is held; the
\* handler is None (ok = FALSE) when that fails
get_handler_and_console(w) ==
    IF w.project # None THEN {[w |-> w, ok |-> TRUE]}
    ELSE { LET r == connect(w, c) IN [w |-> r.w, ok |-> r.val.b]
             : c \in ConnectOutcomes }

\* what a command renders for a handler result
Rendered(ok) == IF ok THEN PyStr("success") ELSE PyStr("failure")

kb_create(w, kb_name) ==
    UNION { IF ~g.ok THEN {Ret(g.w, PyNone)}
            ELSE { IF o.raised THEN o ELSE Ret(o.w, Rendered(o.val.b))
                     : o \in create_knowledge_base(g.w, kb_name) }
              : g \in get_handler_and_console(w) }

setup_hackernews(w, name) ==
    UNION { IF ~g.ok THEN {Ret(g.w, PyNone)}
            ELSE { IF o.raised THEN o ELSE Ret(o.w, Rendered(o.val.b))
                     : o \in create_hackernews_datasource(g.w, name) }
              : g \in get_handler_and_console(w) }

\* the project a model command addresses: --project-name, else the name of
\* the session's project
EffectiveProject(project_name) ==
    IF project_name # None THEN project_name ELSE "mindsdb"

\* what a command renders for a table the handler returned (None on failure)
RenderedTable(v) ==
    IF v.t = "none" THEN PyStr("failure")
    ELSE IF DfEmpty(v.df) THEN PyStr("empty")
    ELSE v

ai_create_model(w, model_name, project_name) ==
    UNION { IF ~g.ok THEN {Ret(g.w, PyNone)}
            ELSE { Ret(o.w, Rendered(o.val.b))
                     : o \in create_model_from_query(g.w, model_name,
                                                     EffectiveProject(project_name)) }
              : g \in get_handler_and_console(w) }

ai_refresh_model(w, model_name, project_name) ==
    UNION { IF ~g.ok THEN {Ret(g.w, PyNone)}
            ELSE { Ret(o.w, Rendered(o.val.b))
                     : o \in refresh_model(g.w, model_name,
                                           EffectiveProject(project_name)) }
              : g \in get_handler_and_console(w) }

job_logs(w, job_name) ==
    UNION { IF ~g.ok THEN {Ret(g.w, PyNone)}
            ELSE { Ret(o.w, RenderedTable(o.val)) : o \in get_job_logs(g.w, job_name) }
              : g \in get_handler_and_console(w) }

\* job create: the statements are the non-blank pieces between semicolons
SplitStatements(pieces) == SelectSeq(pieces, LAMBDA x : x \notin {"", " "})

job_create_generic(w, job_name, pieces) ==
    UNION { IF ~g.ok THEN {Ret(g.w, PyNone)}
            ELSE IF SplitStatements(pieces) = <<>>
                 THEN {Ret(g.w, PyStr("Error: No SQL statements provided."))}
            ELSE { Ret(o.w, Rendered(o.val.b)) : o \in create_job(g.w, job_name) }
              : g \in get_handler_and_console(w) }

\* json.loads of a flag's text: it raises on malformed text, else it gives a
\* dictionary (of strings, or with other values) or some other JSON value
JsonArgs == {None, "object", "object_of_numbers", "array", "malformed"}
IsDict(a) == a \in {"object", "object_of_numbers"}

kb_query(w, kb_name, metadata_filters_str) ==
    UNION { IF ~g.ok THEN {Ret(g.w, PyNone)}
            ELSE IF metadata_filters_str # None /\ ~IsDict(metadata_filters_str)
                 THEN {Ret(g.w, PyStr("--metadata-filter"))}
            ELSE { Ret(o.w, RenderedTable(o.val))
                     : o \in select_from_knowledge_base(g.w, kb_name) }
              : g \in get_handler_and_console(w) }

\* kb ingest: the content column defaults by table; the datasource is created
\* when the catalog check does not find it
DefaultContent(table) ==
    CASE table = "stories" -> "title"
      [] table = "comments" -> "text"
      [] OTHER -> None

kb_ingest(w, kb_name, table, content_column, metadata_map, hn_datasource) ==
    UNION { IF ~g.ok THEN {Ret(g.w, PyNone)}
            ELSE IF content_column = None /\ DefaultContent(table) = None
                 THEN {Ret(g.w, PyStr("--content-column"))}
            \* lines 174-178: not JSON, not a dictionary, or a value not a string
            ELSE IF metadata_map # None
                    /\ metadata_map # "object"
                 THEN {Ret(g.w, PyStr("--metadata-map"))}
            ELSE UNION {
                   UNION { IF ~d.val.b THEN {Ret(d.w, PyStr("failure"))}
                           ELSE { Ret(o.w, Rendered(o.val.b))
                                    : o \in insert_into_knowledge_base_direct(d.w, kb_name) }
                             : d \in (IF c.val.b THEN {c}
                                      ELSE create_hackernews_datasource(c.w, hn_datasource)) }
                     : c \in get_database_custom_check(g.w, hn_datasource) }
              : g \in get_handler_and_console(w) }

kb_create_agent(w, agent_name, include_knowledge_bases, other_params_str) ==
    UNION { IF ~g.ok THEN {Ret(g.w, PyNone)}
            ELSE IF include_knowledge_bases = {}
                 THEN {Ret(g.w, PyStr("--include-knowledge-bases"))}
            ELSE IF other_params_str # None /\ ~IsDict(other_params_str)
                 THEN {Ret(g.w, PyStr("--other-params"))}
            ELSE { Ret(o.w, Rendered(o.val.b))
                     : o \in create_kb_agent(g.w, agent_name, include_knowledge_bases) }
              : g \in get_handler_and_console(w) }

kb_evaluate(w, kb_name, llm_other_params, no_evaluate_flag, generate_data_flag) ==
    UNION { IF ~g.ok THEN {Ret(g.w, PyNone)}
            ELSE IF llm_other_params # None /\ ~IsDict(llm_other_params)
                 THEN {Ret(g.w, PyStr("--llm-other-params"))}
            ELSE IF no_evaluate_flag /\ ~generate_data_flag
                 THEN {Ret(g.w, PyStr("Nothing will be done."))}
            ELSE { Ret(o.w, IF o.val.t = "none" THEN PyStr("failure") ELSE o.val)
                     : o \in evaluate_knowledge_base(g.w, kb_name) }
              : g \in get_handler_and_console(w) }

\* kb list-databases, lines 280-282: the column the names are read from
ListedColumn(df) ==
    IF HasCol(df, "Database") THEN "Database"
    ELSE IF HasCol(df, "NAME") THEN "NAME"
    ELSE "name"

\* df[[c]]: the table of the one column c
OnlyColumn(df, c) ==
    [cols |-> <<c>>,
     rows |-> [r \in 1..Len(df.rows) |-> <<df.rows[r][ColIndex(df, c)]>>]]

kb_list_databases(w) ==
    UNION { IF ~g.ok THEN {Ret(g.w, PyNone)}
            ELSE { IF o.raised THEN Ret(o.w, PyStr("failure"))
                   ELSE IF DfEmpty(o.val.df) THEN Ret(o.w, PyStr("empty"))
                   \* databases_df[db_col_name] raises KeyError without that column
                   ELSE IF ~HasCol(o.val.df, ListedColumn(o.val.df))
                        THEN Raise(o.w, Exc("KeyError", <<ListedColumn(o.val.df)>>))
                   ELSE Ret(o.w, PyDf(OnlyColumn(o.val.df, ListedColumn(o.val.df))))
                     : o \in execute_sql(g.w, Stmt("SHOW_DATABASES", "")) }
              : g \in get_handler_and_console(w) }

\* ai describe-model, lines 225-235: the row shown of a table of several rows;
\* model_df['name'] raises KeyError without that column
SelectDescribed(df, model_name) ==
    IF Len(df.rows) <= 1 THEN [raised |-> FALSE, warned |-> FALSE, df |-> df]
    ELSE IF ~HasCol(df, "name") THEN [raised |-> TRUE, warned |-> TRUE, df |-> df]
    ELSE LET exact == SelectSeq(df.rows, LAMBDA r :
                          LowerWord(r[ColIndex(df, "name")]) = LowerWord(model_name))
         IN  [raised |-> FALSE, warned |-> TRUE,
              df |-> [cols |-> df.cols,
                      rows |-> IF exact # <<>> THEN <<exact[1]>> ELSE <<df.rows[1]>>]]

ai_describe_model(w, model_name, project_name) ==
    UNION { IF ~g.ok THEN {Ret(g.w, PyNone)}
            ELSE { IF o.val.t = "none" THEN Ret(o.w, PyStr("failure"))
                   ELSE IF DfEmpty(o.val.df) THEN Ret(o.w, PyStr("No description found"))
                   ELSE LET sel == SelectDescribed(o.val.df, model_name)
                        IN  IF sel.raised THEN Raise(o.w, Exc("KeyError", <<"name">>))
                            ELSE Ret(o.w, [PyDf(sel.df) EXCEPT
                                             !.s = IF sel.warned THEN "Warning: multiple entries"
                                                   ELSE ""])
                     : o \in describe_model(g.w, model_name, EffectiveProject(project_name)) }
              : g \in get_handler_and_console(w) }

(***************************************************************************)
(* The state machine.  One action per public operation: it runs the whole  *)
(* operation against the server and records what came of it in `last`,     *)
(* which the next prompt clears.                                           *)
(***************************************************************************)
ListingColumns == {"Database", "name", "NAME", "database"}

Idle == [op |-> "idle", name |-> "", pn |-> None, arg |-> None, pre |-> None,
         preDbs |-> {}, preKbs |-> {},
         raised |-> FALSE, val |-> PyNone, exc |-> NoExc, sent |-> <<>>, conn |-> <<>>]

Init ==
    /\ server = None
    /\ project = None
    /\ dbs = {}
    /\ kbs = {}
    /\ listingCol \in ListingColumns
    /\ last = Idle

World ==
    [server |-> server, project |-> project, dbs |-> dbs, kbs |-> kbs,
     col |-> listingCol, sent |-> <<>>, conn |-> <<>>, faults |-> 0]

\* the operation op(n, pn, arg) ended in the outcome o
Finish(op, n, pn, arg, o) ==
    /\ server' = o.w.server
    /\ project' = o.w.project
    /\ dbs' = o.w.dbs
    /\ kbs' = o.w.kbs
    /\ UNCHANGED listingCol
    /\ last' = [op |-> op, name |-> n, pn |-> pn, arg |-> arg, pre |-> project,
                preDbs |-> dbs, preKbs |-> kbs,
                raised |-> o.raised, val |-> o.val, exc |-> o.exc,
                sent |-> o.w.sent, conn |-> o.w.conn]

Done(op, n, pn, o) == Finish(op, n, pn, None, o)

Ready == last.op = "idle"

Prompt ==
    /\ ~Ready
    /\ last' = Idle
    /\ UNCHANGED <<server, project, dbs, kbs, listingCol>>

CallConnect ==
    /\ Ready
    /\ \E c \in ConnectOutcomes : Done("connect", c, None, connect(World, c))

\* statements a caller hands to execute_sql directly
DirectStatements == {Stmt("SELECT", ""), Stmt("SHOW_DATABASES", "")}

CallExecuteSql ==
    /\ Ready
    /\ \E q \in DirectStatements : \E o \in execute_sql(World, q) :
          Done("execute_sql", q.kind, None, o)

CallGetDatabaseCustomCheck ==
    /\ Ready
    /\ \E n \in DsNames : \E o \in get_database_custom_check(World, n) :
          Done("get_database_custom_check", n, None, o)

CallCreateHackernewsDatasource ==
    /\ Ready
    /\ \E n \in DsNames : \E o \in create_hackernews_datasource(World, n) :
          Done("create_hackernews_datasource", n, None, o)

CallCreateKnowledgeBase ==
    /\ Ready
    /\ \E n \in KbNames : \E o \in create_knowledge_base(World, n) :
          Done("create_knowledge_base", n, None, o)

CallCreateIndex ==
    /\ Ready
    /\ \E n \in KbNames : \E o \in create_index_on_knowledge_base(World, n) :
          Done("create_index_on_knowledge_base", n, None, o)

CallInsertDirect ==
    /\ Ready
    /\ \E n \in KbNames : \E o \in insert_into_knowledge_base_direct(World, n) :
          Done("insert_into_knowledge_base_direct", n, None, o)

CallSelectFromKnowledgeBase ==
    /\ Ready
    /\ \E n \in KbNames : \E o \in select_from_knowledge_base(World, n) :
          Done("select_from_knowledge_base", n, None, o)

CallEvaluateKnowledgeBase ==
    /\ Ready
    /\ \E n \in KbNames : \E o \in evaluate_knowledge_base(World, n) :
          Done("evaluate_knowledge_base", n, None, o)

CallCreateMindsdbJob ==
    /\ Ready
    /\ \E o \in create_mindsdb_job(World, "j1") :
          Done("create_mindsdb_job", "j1", None, o)

CallListModels ==
    /\ Ready
    /\ \E pn \in ProjectArgs : \E o \in list_models(World, pn) :
          Done("list_models", "", pn, o)

CallDescribeModel ==
    /\ Ready
    /\ \E pn \in ProjectArgs : \E o \in describe_model(World, ModelName, pn) :
          Done("describe_model", ModelName, pn, o)

CallDropModel ==
    /\ Ready
    /\ \E pn \in ProjectArgs : \E o \in drop_model(World, ModelName, pn) :
          Done("drop_model", ModelName, pn, o)

CallRefreshModel ==
    /\ Ready
    /\ \E pn \in ProjectArgs : \E o \in refresh_model(World, ModelName, pn) :
          Done("refresh_model", ModelName, pn, o)

CallCreateModelFromQuery ==
    /\ Ready
    /\ \E pn \in ProjectArgs : \E o \in create_model_from_query(World, ModelName, pn) :
          Done("create_model_from_query", ModelName, pn, o)

CallCreateKbAgent ==
    /\ Ready
    /\ \E ks \in SUBSET KbNames : \E o \in create_kb_agent(World, "a1", ks) :
          Done("create_kb_agent", "a1", None, o)

CallQueryKbAgent ==
    /\ Ready
    /\ \E o \in query_kb_agent(World, "a1") : Done("query_kb_agent", "a1", None, o)

CallCreateJob ==
    /\ Ready
    /\ \E o \in create_job(World, "j1") : Done("create_job", "j1", None, o)

CallUpdateHackernewsDb ==
    /\ Ready
    /\ \E o \in update_hackernews_db(World, "j1") :
          Done("update_hackernews_db", "j1", None, o)

CallListJobs ==
    /\ Ready
    /\ \E pn \in ProjectArgs : \E o \in list_jobs(World, pn) :
          Done("list_jobs", "", pn, o)

CallGetJobStatus ==
    /\ Ready
    /\ \E o \in get_job_status(World, "j1") : Done("get_job_status", "j1", None, o)

CallGetJobHistory ==
    /\ Ready
    /\ \E o \in get_job_history(World, "j1") : Done("get_job_history", "j1", None, o)

CallGetJobLogs ==
    /\ Ready
    /\ \E o \in get_job_logs(World, "j1") : Done("get_job_logs", "j1", None, o)

CallDropJob ==
    /\ Ready
    /\ \E o \in drop_job(World, "j1") : Done("drop_job", "j1", None, o)

CmdKbCreate ==
    /\ Ready
    /\ \E n \in KbNames : \E o \in kb_create(World, n) : Done("kb_create", n, None, o)

CmdSetupHackernews ==
    /\ Ready
    /\ \E n \in DsNames : \E o \in setup_hackernews(World, n) :
          Done("setup_hackernews", n, None, o)

CmdAiCreateModel ==
    /\ Ready
    /\ \E o \in ai_create_model(World, ModelName, None) :
          Done("ai_create_model", ModelName, None, o)

CmdAiRefreshModel ==
    /\ Ready
    /\ \E o \in ai_refresh_model(World, ModelName, None) :
          Done("ai_refresh_model", ModelName, None, o)

CmdJobLogs ==
    /\ Ready
    /\ \E o \in job_logs(World, "j1") : Done("job_logs", "j1", None, o)

CmdJobCreate ==
    /\ Ready
    /\ \E ps \in {<<"">>, <<" ", "">>, <<"SELECT 1", "">>} : \E o \in job_create_generic(World, "j1", ps) :
          Finish("job_create_generic", "j1", None, ps, o)

CmdKbQuery ==
    /\ Ready
    /\ \E a \in JsonArgs \ {"object_of_numbers"} : \E o \in kb_query(World, "kb1", a) :
          Finish("kb_query", "kb1", None, a, o)

CmdKbIngest ==
    /\ Ready
    /\ \E t \in {"stories", "users"}, a \in JsonArgs \ {"object"} :
          \E o \in kb_ingest(World, "kb1", t, None, a, "hackernews") :
             Finish("kb_ingest", t, None, a, o)

CmdKbCreateAgent ==
    /\ Ready
    /\ \E ks \in {{}, {"kb1"}}, a \in JsonArgs \ {"object_of_numbers"} :
          \E o \in kb_create_agent(World, "a1", ks, a) :
             Finish("kb_create_agent", IF ks = {} THEN "" ELSE "kb1", None, a, o)

CmdKbEvaluate ==
    /\ Ready
    /\ \E a \in {None, "array", "malformed"}, ne \in BOOLEAN, gd \in BOOLEAN :
          \E o \in kb_evaluate(World, "kb1", a, ne, gd) :
             Finish("kb_evaluate", "kb1", None, a, o)

CmdKbListDatabases ==
    /\ Ready
    /\ \E o \in kb_list_databases(World) : Done("kb_list_databases", "", None, o)

CmdAiDescribeModel ==
    /\ Ready
    /\ \E o \in ai_describe_model(World, ModelName, None) :
          Done("ai_describe_model", ModelName, None, o)

Next ==
    \/ Prompt
    \/ CallConnect
    \/ CallExecuteSql
    \/ CallGetDatabaseCustomCheck
    \/ CallCreateHackernewsDatasource
    \/ CallCreateKnowledgeBase
    \/ CallCreateIndex
    \/ CallInsertDirect
    \/ CallSelectFromKnowledgeBase
    \/ CallEvaluateKnowledgeBase
    \/ CallCreateMindsdbJob
    \/ CallListModels
    \/ CallDescribeModel
    \/ CallDropModel
    \/ CallRefreshModel
    \/ CallCreateModelFromQuery
    \/ CallCreateKbAgent
    \/ CallQueryKbAgent
    \/ CallCreateJob
    \/ CallUpdateHackernewsDb
    \/ CallListJobs
    \/ CallGetJobStatus
    \/ CallGetJobHistory
    \/ CallGetJobLogs
    \/ CallDropJob
    \/ CmdKbCreate
    \/ CmdSetupHackernews
    \/ CmdAiCreateModel
    \/ CmdAiRefreshModel
    \/ CmdJobLogs
    \/ CmdJobCreate
    \/ CmdKbQuery
    \/ CmdKbIngest
    \/ CmdKbCreateAgent
    \/ CmdKbEvaluate
    \/ CmdKbListDatabases
    \/ CmdAiDescribeModel

Spec == Init /\ [][Next]_vars

(***************************************************************************)
(* The statement builders and the row selection of ai describe-model are   *)
(* functions of their arguments alone: BuilderSpec applies them to every   *)
(* argument within the bounds.                                             *)
(***************************************************************************)
\* texts are sequences of characters
Chars == {"a", "/", "\"", "\\", "'"}
Texts == UNION {[1..n -> Chars] : n \in 0..MaxStrLen}
\* an optional text argument that was not given
NoText == <<None>>

\* str.replace('"', '\\"')
RECURSIVE EscapeQuotes(_)
EscapeQuotes(v) ==
    IF v = <<>> THEN <<>>
    ELSE (IF Head(v) = "\"" THEN <<"\\", "\"">> ELSE <<Head(v)>>) \o EscapeQuotes(Tail(v))

\* str.rstrip('/')
RECURSIVE RStripSlash(_)
RStripSlash(v) ==
    IF v # <<>> /\ v[Len(v)] = "/" THEN RStripSlash(SubSeq(v, 1, Len(v) - 1)) ELSE v

\* lines 140-147: the configuration dictionary, in insertion order
EmbConfig(provider, model_name, base_url, api_key) ==
    << [k |-> "provider", v |-> provider], [k |-> "model_name", v |-> model_name] >>
    \o (IF base_url \notin {NoText, <<>>}
        THEN << [k |-> "base_url", v |-> RStripSlash(base_url)] >> ELSE <<>>)
    \o (IF api_key \notin {NoText, <<>>}
        THEN << [k |-> "api_key", v |-> api_key] >> ELSE <<>>)

\* line 150: each entry as "key": "value" with the quotes of the value escaped
EmbeddingLiteral(config) ==
    [i \in 1..Len(config) |->
        [k |-> config[i].k, lit |-> <<"\"">> \o EscapeQuotes(config[i].v) \o <<"\"">>]]

\* reading a double-quoted literal back: a backslash makes the next
\* character literal, and the first unescaped quote ends the text
RECURSIVE ReadChars(_, _)
ReadChars(lit, i) ==
    IF i > Len(lit) THEN [ok |-> FALSE, v |-> <<>>, end |-> i]
    ELSE IF lit[i] = "\"" THEN [ok |-> TRUE, v |-> <<>>, end |-> i]
    ELSE IF lit[i] = "\\"
         THEN IF i + 1 > Len(lit) THEN [ok |-> FALSE, v |-> <<>>, end |-> i]
              ELSE LET r == ReadChars(lit, i + 2)
                   IN  [r EXCEPT !.v = <<lit[i + 1]>> \o r.v]
    ELSE LET r == ReadChars(lit, i + 1) IN [r EXCEPT !.v = <<lit[i]>> \o r.v]

ReadLiteral(lit) ==
    LET r == ReadChars(lit, 2)
    IN  [ok |-> r.ok /\ r.end = Len(lit), v |-> r.v]

\* ", ".join(f"'{x}'" for x in names), as tokens
RECURSIVE JoinQuoted(_)
JoinQuoted(names) ==
    IF names = <<>> THEN <<>>
    ELSE <<"'", Head(names), "'">>
         \o (IF Len(names) > 1 THEN <<",">> ELSE <<>>) \o JoinQuoted(Tail(names))

\* the clause that brackets a single name too
ColumnsClause_AlwaysArray(option, columns) ==
    IF columns = <<>> THEN <<>>
    ELSE <<option, "=", "[">> \o JoinQuoted(columns) \o <<"]">>

\* create_knowledge_base, lines 168-188: content_columns and metadata_columns
ColumnsClause(option, columns) ==
    IF columns = <<>> THEN <<>>
    ELSE IF Len(columns) = 1 THEN <<option, "=", "'", columns[1], "'">>
    ELSE <<option, "=", "[">> \o JoinQuoted(columns) \o <<"]">>

\* kb.replace("'", "''") on the names the lists are made of
DoubledQuotes(names) ==
    [i \in 1..Len(names) |-> IF names[i] = "k'b" THEN "k''b" ELSE names[i]]

\* create_kb_agent, lines 680-687: include_knowledge_bases and include_tables
AgentListClause(option, names) ==
    IF names = <<>> THEN <<>>
    ELSE <<option, "=", "[">> \o JoinQuoted(DoubledQuotes(names)) \o <<"]">>

\* str.replace("'", "''")
RECURSIVE EscapeSingle(_)
EscapeSingle(v) ==
    IF v = <<>> THEN <<>>
    ELSE (IF Head(v) = "'" THEN <<"'", "'">> ELSE <<Head(v)>>) \o EscapeSingle(Tail(v))

\* create_kb_agent, lines 660-666 and 691-695: the model, the API key when
\* one is given and the prompt template when one is given, each as key and
\* literal (no model name here holds the word google, and no key is configured)
AgentParams(model_name, google_api_key, prompt_template) ==
    << [k |-> "model", lit |-> <<"'">> \o model_name \o <<"'">>] >>
    \o (IF google_api_key \notin {NoText, <<>>}
        THEN << [k |-> "google_api_key", lit |-> <<"'">> \o google_api_key \o <<"'">>] >>
        ELSE <<>>)
    \o (IF prompt_template \notin {NoText, <<>>}
        THEN << [k |-> "prompt_template",
                 lit |-> <<"'", "'", "'">> \o EscapeSingle(prompt_template)
                         \o <<"'", "'", "'">>] >>
        ELSE <<>>)

\* create_model_from_query, lines 585-590: every string parameter of USING,
\* the prompt template among them, in the order of the dictionary
UsingClause(using_params) ==
    [i \in 1..Len(using_params) |->
        [k |-> using_params[i].k,
         lit |-> <<"'">> \o EscapeSingle(using_params[i].v) \o <<"'">>]]

\* a metadata filter value is a record: t is str, num or dict, v the string
\* or the printed number, ops the operators of a dictionary with their
\* printed operands
\* the entry that turns every operator into a conjunct
FilterConjuncts_AnyOperator(col, val) ==
    IF val.t = "dict"
    THEN [i \in 1..Len(val.ops) |-> [col |-> col, op |-> ">", val |-> val.ops[i].v]]
    ELSE << [col |-> col, op |-> "=",
             val |-> IF val.t = "str" THEN <<"'">> \o EscapeSingle(val.v) \o <<"'">>
                     ELSE val.v] >>

\* select_from_knowledge_base, lines 284-300: the conjuncts of one entry
FilterConjuncts(col, val) ==
    IF val.t = "dict"
    THEN LET symbol(op) == CASE op = "$gt" -> ">" [] op = "$gte" -> ">="
                             [] op = "$lt" -> "<" [] op = "$lte" -> "<="
             known == SelectSeq(val.ops,
                                LAMBDA o : o.op \in {"$gt", "$gte", "$lt", "$lte"})
         IN  [i \in 1..Len(known) |->
                 [col |-> col, op |-> symbol(known[i].op), val |-> known[i].v]]
    ELSE << [col |-> col, op |-> "=",
             val |-> IF val.t = "str" THEN <<"'">> \o EscapeSingle(val.v) \o <<"'">>
                     ELSE val.v] >>

\* lines 279-283: the content predicate, then the conjuncts of the entries
RECURSIVE WhereClauses(_, _)
WhereClauses(query_text, metadata_filters) ==
    IF metadata_filters = <<>>
    THEN << [col |-> "content", op |-> "=",
             val |-> <<"'">> \o EscapeSingle(query_text) \o <<"'">>] >>
    ELSE LET n == Len(metadata_filters)
         IN  WhereClauses(query_text, SubSeq(metadata_filters, 1, n - 1))
             \o FilterConjuncts(metadata_filters[n].col, metadata_filters[n].val)

\* a schedule, a date and a condition are sequences of words; "EVERY" is
\* what str.upper() makes of the words every and Every
\* the clause that compares the first word as it is written
ScheduleClause_CaseSensitive(schedule_interval) ==
    IF schedule_interval[1] # "EVERY" THEN <<"EVERY">> \o schedule_interval
    ELSE schedule_interval

\* create_job, lines 793-796, for a schedule that is given
ScheduleClause(schedule_interval) ==
    LET upper(t) == IF t \in {"every", "Every"} THEN "EVERY" ELSE t
    IN  IF upper(schedule_interval[1]) # "EVERY" THEN <<"EVERY">> \o schedule_interval
        ELSE schedule_interval

\* the statement whose schedule comes before its dates
JobQuery_ScheduleFirst(job_name, statements, project_name, start_date, end_date, schedule_interval, if_condition) ==
    << <<"CREATE", "JOB", "IF", "NOT", "EXISTS">>
         \o (IF project_name # None THEN <<project_name, ".">> ELSE <<>>)
         \o <<job_name, "(">>,
       [i \in 1..(2 * Len(statements) - 1) |->
           IF i % 2 = 1 THEN statements[(i + 1) \div 2] ELSE ";"],
       <<")">> >>
    \o (IF schedule_interval \notin {NoText, <<>>}
        THEN <<ScheduleClause(schedule_interval)>> ELSE <<>>)
    \o (IF start_date \notin {NoText, <<>>}
        THEN << <<"START", "'">> \o start_date \o <<"'">> >> ELSE <<>>)
    \o (IF end_date \notin {NoText, <<>>}
        THEN << <<"END", "'">> \o end_date \o <<"'">> >> ELSE <<>>)
    \o (IF if_condition \notin {NoText, <<>>}
        THEN << <<"IF", "(">> \o if_condition \o <<")">> >> ELSE <<>>)

\* create_job, lines 775-801: the parts of the query, one per line
JobQuery(job_name, statements, project_name, start_date, end_date, schedule_interval, if_condition) ==
    << <<"CREATE", "JOB", "IF", "NOT", "EXISTS">>
         \o (IF project_name # None THEN <<project_name, ".">> ELSE <<>>)
         \o <<job_name, "(">>,
       [i \in 1..(2 * Len(statements) - 1) |->
           IF i % 2 = 1 THEN statements[(i + 1) \div 2] ELSE ";"],
       <<")">> >>
    \o (IF start_date \notin {NoText, <<>>}
        THEN << <<"START", "'">> \o start_date \o <<"'">> >> ELSE <<>>)
    \o (IF end_date \notin {NoText, <<>>}
        THEN << <<"END", "'">> \o end_date \o <<"'">> >> ELSE <<>>)
    \o (IF schedule_interval \notin {NoText, <<>>}
        THEN <<ScheduleClause(schedule_interval)>> ELSE <<>>)
    \o (IF if_condition \notin {NoText, <<>>}
        THEN << <<"IF", "(">> \o if_condition \o <<")">> >> ELSE <<>>)

\* --metadata-map is a record: t says absent, malformed (no JSON), array
\* (no dictionary of strings) or dict, entries are a dictionary's, in order
\* the arguments that give up when no content column is named
IngestArguments_NoDefaults(table, content_column, metadata_map) ==
    [ok |-> content_column # None /\ metadata_map.t \in {"absent", "dict"},
     content_column |-> content_column,
     metadata |-> metadata_map.entries]

\* kb ingest, lines 167-183: the content column and the metadata map that
\* go to the builder
IngestArguments(table, content_column, metadata_map) ==
    LET content == IF content_column # None THEN content_column ELSE DefaultContent(table)
    IN  IF content = None \/ metadata_map.t \in {"malformed", "array"}
        THEN [ok |-> FALSE, content_column |-> content, metadata |-> <<>>]
        ELSE [ok |-> TRUE, content_column |-> content,
              metadata |->
                 IF metadata_map.t = "dict" THEN metadata_map.entries
                 ELSE CASE table = "stories" ->
                             << [k |-> "story_id", v |-> "id"], [k |-> "time", v |-> "time"],
                                [k |-> "score", v |-> "score"],
                                [k |-> "descendants", v |-> "descendants"] >>
                        [] table = "comments" ->
                             << [k |-> "comment_id", v |-> "id"], [k |-> "time", v |-> "time"],
                                [k |-> "parent", v |-> "parent"] >>
                        [] table = "hnstories" -> << [k |-> "story_id", v |-> "id"] >>
                        [] OTHER -> <<>>]

\* insert_into_knowledge_base_direct, lines 218-234: the content column,
\* then the source columns of the metadata map
InsertSelect(kb_name, source_table, content_column, metadata_columns, limit, order_by) ==
    [into |-> kb_name,
     select |-> <<content_column>>
                \o [i \in 1..Len(metadata_columns) |-> metadata_columns[i].v],
     from |-> source_table,
     order_by |-> order_by,
     limit |-> IF limit > 0 THEN <<limit>> ELSE <<>>]

\* evaluate_knowledge_base, lines 1022-1033: the generate_data clause; a
\* count is <<>> for None and <<n>> for a number
GenerateDataClause(generate_data_flag, generate_data_from_sql, generate_data_count) ==
    LET from_sql == IF generate_data_from_sql \notin {NoText, <<>>}
                    THEN << <<"'", "'", "'">> \o EscapeSingle(generate_data_from_sql)
                            \o <<"'", "'", "'">> >>
                    ELSE <<>>
    IN  IF generate_data_flag
        THEN [emitted |-> TRUE, value |-> "true", from_sql |-> <<>>, count |-> <<>>]
        ELSE IF from_sql # <<>> \/ generate_data_count # <<>>
        THEN [emitted |-> TRUE, value |-> "dict", from_sql |-> from_sql,
              count |-> generate_data_count]
        ELSE [emitted |-> FALSE, value |-> "", from_sql |-> <<>>, count |-> <<>>]

ListsOf(S) == UNION {[1..n -> S] : n \in 0..MaxList}

\* describe results of up to MaxRows models, named under name or NAME
DescribeTables ==
    UNION { { [cols |-> <<c, "STATUS">>, rows |-> [i \in 1..n |-> <<f[i], "complete">>]]
                : f \in [1..n -> {"m1", "M1", "m2"}], c \in {"name", "NAME"} }
              : n \in 1..MaxRows }

BuilderInit ==
    /\ server = None
    /\ project = None
    /\ dbs = {}
    /\ kbs = {}
    /\ listingCol = "Database"
    /\ last = Idle

Built(op, in, out) ==
    /\ last' = [op |-> op, in |-> in, out |-> out]
    /\ UNCHANGED <<server, project, dbs, kbs, listingCol>>

CallColumnsClause ==
    /\ Ready
    /\ \E option \in {"content_columns", "metadata_columns"},
          columns \in ListsOf({"c1", "c2", "k'b"}) :
          Built(option, columns, ColumnsClause(option, columns))

CallAgentListClause ==
    /\ Ready
    /\ \E option \in {"include_knowledge_bases", "include_tables"},
          names \in ListsOf({"kb1", "k'b"}) :
          Built(option, names, AgentListClause(option, names))

CallEmbeddingLiteral ==
    /\ Ready
    /\ \E provider \in {<<"a">>, <<"\"">>}, base_url \in Texts \cup {NoText},
          api_key \in Texts \cup {NoText} :
          Built("embedding_model",
                [provider |-> provider, model_name |-> <<"a">>,
                 base_url |-> base_url, api_key |-> api_key],
                EmbeddingLiteral(EmbConfig(provider, <<"a">>, base_url, api_key)))

CallAgentParams ==
    /\ Ready
    /\ \E model_name \in {<<"a">>, <<"a", "'">>},
          google_api_key \in {NoText, <<"a">>, <<"'", "a">>},
          prompt_template \in Texts \cup {NoText} :
          Built("create_kb_agent",
                [model |-> model_name, google_api_key |-> google_api_key,
                 prompt_template |-> prompt_template],
                AgentParams(model_name, google_api_key, prompt_template))

\* ai create-model, lines 62-63: engine first, then the prompt template
CallUsingClause ==
    /\ Ready
    /\ \E engine \in {<<"a">>}, prompt_template \in Texts \cup {NoText} :
          LET using_params ==
                  << [k |-> "engine", v |-> engine] >>
                  \o (IF prompt_template \notin {NoText, <<>>}
                      THEN << [k |-> "prompt_template", v |-> prompt_template] >>
                      ELSE <<>>)
          IN  Built("create_model_from_query",
                    [engine |-> engine, prompt_template |-> prompt_template],
                    UsingClause(using_params))

\* the filters are a dictionary, so no column twice
CallWhereClauses ==
    LET Str(v) == [t |-> "str", v |-> v, ops |-> <<>>]
        Num(v) == [t |-> "num", v |-> v, ops |-> <<>>]
        Dict(ops) == [t |-> "dict", v |-> <<>>, ops |-> ops]
        FilterValues ==
            {Str(<<"a">>), Str(<<"'">>), Num(<<"5">>), Dict(<<>>),
             Dict(<<[op |-> "$gt", v |-> <<"5">>], [op |-> "$lt", v |-> <<"7">>]>>)}
            \cup {Dict(<<[op |-> o, v |-> <<"5">>]>>) :
                      o \in {"$gt", "$gte", "$lt", "$lte", "$ne"}}
    IN  /\ Ready
        /\ \E query_text \in {<<"a">>, <<"a", "'">>},
              cols \in ListsOf({"score", "author", "time", "id"}) :
              /\ \A i, j \in 1..Len(cols) : cols[i] = cols[j] => i = j
              /\ \E vals \in [1..Len(cols) -> FilterValues] :
                    LET metadata_filters ==
                            [i \in 1..Len(cols) |-> [col |-> cols[i], val |-> vals[i]]]
                    IN  Built("select_from_knowledge_base",
                              [query_text |-> query_text,
                               metadata_filters |-> metadata_filters],
                              WhereClauses(query_text, metadata_filters))

CallJobQuery ==
    /\ Ready
    /\ \E statements \in ListsOf({"s1", "s2"}), project_name \in {None, "p"},
          start_date \in {NoText, <<>>, <<"d1">>},
          end_date \in {NoText, <<>>, <<"d2">>},
          schedule_interval \in {NoText, <<>>, <<"1", "hour">>, <<"EVERY", "1", "hour">>,
                                 <<"every", "1", "hour">>, <<" ", "EVERY", "1", "hour">>},
          if_condition \in {NoText, <<"c">>} :
          Built("create_job",
                [statements |-> statements, start_date |-> start_date,
                 end_date |-> end_date, schedule_interval |-> schedule_interval,
                 if_condition |-> if_condition],
                JobQuery("j1", statements, project_name, start_date, end_date,
                         schedule_interval, if_condition))

\* kb ingest, lines 193-201, without its round trips
CallIngestArguments ==
    /\ Ready
    /\ \E table \in {"stories", "comments", "hnstories", "users"},
          content_column \in {None, "text"},
          metadata_map \in
              {[t |-> t, entries |-> <<>>] : t \in {"absent", "malformed", "array"}}
              \cup {[t |-> "dict", entries |-> e] :
                       e \in ListsOf({[k |-> "doc", v |-> "id"], [k |-> "user", v |-> "by"]})
                             \ {<<>>}},
          limit \in {0, 100} :
          LET a == IngestArguments(table, content_column, metadata_map)
          IN  Built("kb_ingest",
                    [table |-> table, content_column |-> content_column,
                     metadata_map |-> metadata_map.t],
                    [ok |-> a.ok, content_column |-> a.content_column,
                     metadata |-> a.metadata,
                     query |-> IF a.ok
                               THEN <<InsertSelect("kb1", <<"hackernews", ".", table>>,
                                                   a.content_column, a.metadata,
                                                   limit, "id DESC")>>
                               ELSE <<>>])

\* kb evaluate, lines 381 and 438-441: --generate-data-count is 20 when it
\* is not given, and always goes to the handler
CallGenerateDataClause ==
    /\ Ready
    /\ \E generate_data_flag \in BOOLEAN,
          generate_data_from_sql \in Texts \cup {NoText},
          count_option \in {<<>>, <<30>>} :
          LET generate_data_count == IF count_option = <<>> THEN <<20>> ELSE count_option
          IN  Built("kb_evaluate",
                    [generate_data_flag |-> generate_data_flag,
                     generate_data_from_sql |-> generate_data_from_sql,
                     count_option |-> count_option],
                    GenerateDataClause(generate_data_flag, generate_data_from_sql,
                                       generate_data_count))

CallSelectDescribed ==
    /\ Ready
    /\ \E df \in DescribeTables :
          Built("select_described", df, SelectDescribed(df, ModelName))

BuilderNext ==
    \/ Prompt
    \/ CallColumnsClause
    \/ CallAgentListClause
    \/ CallEmbeddingLiteral
    \/ CallSelectDescribed
    \/ CallAgentParams
    \/ CallGenerateDataClause
    \/ CallIngestArguments
    \/ CallJobQuery
    \/ CallWhereClauses
    \/ CallUsingClause

BuilderSpec == BuilderInit /\ [][BuilderNext]_vars

(***************************************************************************)
(* Properties.                                                             *)
(***************************************************************************)
\* the answer to the last statement the operation sent
LastResp == last.sent[Len(last.sent)].resp
SaysAlreadyExists(e) == e # NoExc /\ Contains(Lower(e.msg), <<"already", "exists">>)
SaysNotFound(e) ==
    /\ e # NoExc
    /\ \/ Contains(Lower(e.msg), <<"not", "found">>)
       \/ Contains(Lower(e.msg), <<"doesn't", "exist">>)
HasLoopClosedSignature(e) ==
    e.type = "RuntimeError" /\ Contains(e.msg, <<"Event", "loop", "is", "closed">>)

\* the handler's operations on datasources, knowledge bases, models, jobs, agents
HandlerOps ==
    {"get_database_custom_check", "create_hackernews_datasource",
     "create_knowledge_base", "create_index_on_knowledge_base",
     "insert_into_knowledge_base_direct", "select_from_knowledge_base",
     "evaluate_knowledge_base", "create_mindsdb_job", "list_models",
     "describe_model", "drop_model", "refresh_model", "create_model_from_query",
     "create_kb_agent", "query_kb_agent", "create_job", "update_hackernews_db",
     "list_jobs", "get_job_status", "get_job_history", "get_job_logs", "drop_job"}

\* C1: connect() never raises; whenever the transport or the default project
\* cannot be established it returns False with both handles cleared, even
\* when a session was held before; it returns True only with both handles set.
C1_ConnectClearsOnFailure ==
    last.op = "connect" =>
        /\ ~last.raised
        /\ last.val.t = "bool"
        /\ (last.name # "ok" => ~last.val.b)
        /\ (~last.val.b => server = None /\ project = None)
        /\ (last.val.b => server # None /\ project # None)

\* C1 witness: a connect() made while a session was held found no project
C1_Witness ==
    /\ last.op = "connect"
    /\ last.pre # None
    /\ last.name = "project_none"
    /\ ~last.val.b

\* C2: execute_sql without a session makes exactly one connect() attempt; if
\* it fails the "not established" error is raised and nothing is sent; if it
\* succeeds the statement is sent on the new session.
C2_OneImplicitConnect ==
    (last.op = "execute_sql" /\ last.pre = None) =>
        /\ Len(last.conn) = 1
        /\ ~last.conn[1] =>
              /\ last.raised
              /\ last.exc.type = "ConnectionError"
              /\ Contains(last.exc.msg, <<"connection", "not", "established.">>)
              /\ last.sent = <<>>
        /\ last.conn[1] =>
              /\ Len(last.sent) >= 1
              /\ last.sent[1].stmt.kind = last.name
              /\ server # None /\ project # None

\* C2 witness: the implicit connect() failed and the call raised
C2_Witness ==
    /\ last.op = "execute_sql"
    /\ last.pre = None
    /\ last.conn = <<FALSE>>
    /\ last.raised

\* C3: one execute_sql call sends the statement at most twice; a second send
\* only follows a first attempt that failed with the "Event loop is closed"
\* RuntimeError; a failure of the second attempt, and any other failure of
\* the first, is the error the call raises.
C3_AtMostOneRetry ==
    last.op = "execute_sql" =>
        /\ Len(last.sent) <= 2
        /\ Len(last.sent) = 2 => HasLoopClosedSignature(last.sent[1].resp)
        /\ (Len(last.sent) = 2 /\ last.sent[2].resp # NoExc) =>
              (last.raised /\ last.exc = last.sent[2].resp)
        /\ (Len(last.sent) = 1 /\ last.sent[1].resp # NoExc
              /\ ~HasLoopClosedSignature(last.sent[1].resp)) =>
              (last.raised /\ last.exc = last.sent[1].resp)

\* C3 witness: the retry was made and failed too
C3_Witness ==
    /\ last.op = "execute_sql"
    /\ Len(last.sent) = 2
    /\ last.sent[2].resp # NoExc
    /\ last.raised

\* C4: with no session, every handler operation, for every combination of
\* arguments, returns an error result and sends no statement.
C4_NoSessionFailsFast ==
    (last.op \in HandlerOps /\ last.pre = None) =>
        /\ ~last.raised
        /\ last.val \in {PyFalse, PyNone}
        /\ last.sent = <<>>

\* C5: every CREATE operation returns success when the server answers its
\* CREATE statement with an error whose message contains "already exists".
CreateOps ==
    {"create_knowledge_base", "create_model_from_query", "create_kb_agent",
     "create_job", "create_mindsdb_job", "create_hackernews_datasource"}
CreateStatements == CreateKinds \cup {"CREATE_DATABASE", "CREATE_KB"}

C5_CreateMasksAlreadyExists ==
    (/\ last.op \in CreateOps
     /\ last.sent # <<>>
     /\ LastResp # NoExc
     /\ last.sent[Len(last.sent)].stmt.kind \in CreateStatements
     /\ SaysAlreadyExists(LastResp)) => last.val = PyTrue

\* C6: every DROP operation returns success when the server answers its DROP
\* statement with an error whose message contains "not found" or "doesn't exist".
DropOps == {"drop_model", "drop_job"}

C6_DropMasksNotFound ==
    (/\ last.op \in DropOps
     /\ last.sent # <<>>
     /\ SaysNotFound(LastResp)) => last.val = PyTrue

\* C7: no handler operation lets an exception escape: whatever the server
\* answers at each of its statements, and when the implicit reconnect fails,
\* the operation returns a value.
C7_NoExceptionEscapes ==
    last.op \in HandlerOps =>
        /\ ~last.raised
        /\ last.val.t \in {"bool", "none", "df", "str", "dict"}

\* C7 witness: a multi-statement operation whose third statement failed
C7_Witness ==
    /\ last.op = "create_model_from_query"
    /\ Len(last.sent) >= 3
    /\ LastResp # NoExc
    /\ ~last.raised

\* C8: the error execute_sql raises for a statement that failed for a
\* non-transient reason carries the text of that statement.
C8_ErrorCarriesStatement ==
    (/\ last.op = "execute_sql"
     /\ last.raised
     /\ last.sent # <<>>) => Contains(last.exc.msg, <<"QUERY_TEXT">>)

\* C9: kb create on a server that accepts the CREATE KNOWLEDGE_BASE, and kb
\* create repeated with the same name on a server that answers "already
\* exists", both render success, and no exception escapes.
C9_KbCreateTwice ==
    last.op = "kb_create" =>
        /\ ~last.raised
        /\ (last.sent # <<>> /\ (LastResp = NoExc \/ SaysAlreadyExists(LastResp)))
              => last.val = PyStr("success")

\* C9 witness: the second kb create of a name, answered "Already Exists"
C9_Witness ==
    /\ last.op = "kb_create"
    /\ last.name \in last.preKbs
    /\ Len(last.sent) = 1
    /\ last.sent[1].resp = Exc("Exception", <<"KnowledgeBase", "Already", "Exists">>)
    /\ last.val = PyStr("success")

\* C10: setup hackernews renders success whenever a datasource of the given
\* name already exists on the server, whatever the catalog listing looks like
\* (the server is reached and no round trip fails in the transport).
C10_SetupIdempotent ==
    (/\ last.op = "setup_hackernews"
     /\ last.name \in last.preDbs
     /\ project # None
     /\ \A i \in 1..Len(last.sent) :
           last.sent[i].resp = NoExc \/ SaysAlreadyExists(last.sent[i].resp))
        => last.val = PyStr("success")

\* the round trip that ended the operation
LastTrip == last.sent[Len(last.sent)]
AnsweredEmpty(e) == e.resp = NoExc /\ DfEmpty(e.df)

\* the commands of the command line
CommandOps ==
    {"kb_create", "setup_hackernews", "ai_create_model", "ai_refresh_model",
     "ai_describe_model", "job_logs", "job_create_generic", "kb_query", "kb_ingest",
     "kb_create_agent", "kb_evaluate", "kb_list_databases"}

\* a statement sent again after the transient failure of the same statement
IsResend(sent, i) ==
    /\ i > 1
    /\ sent[i].stmt = sent[i - 1].stmt
    /\ HasLoopClosedSignature(sent[i - 1].resp)
\* an existence check of a datasource
IsPreCheck(sent, i) == sent[i].stmt.kind = "SHOW_DATABASES"
RoundTrips(sent) ==
    {i \in 1..Len(sent) : ~IsResend(sent, i) /\ ~IsPreCheck(sent, i)}

\* C11: a command that reaches the server makes exactly one statement round
\* trip, not counting existence checks of a datasource (nor the one resend
\* after a transient failure).
C11_OneRoundTrip ==
    (/\ last.op \in CommandOps \ {"kb_list_databases"}
     /\ last.sent # <<>>) => Cardinality(RoundTrips(last.sent)) <= 1

\* the invocations whose input fails validation
InvalidInput ==
    \/ last.op = "kb_query" /\ last.arg \in {"array", "malformed"}
    \/ /\ last.op = "kb_ingest"
       /\ last.arg \in {"object_of_numbers", "array", "malformed"}
    \/ /\ last.op = "kb_create_agent"
       /\ (last.name = "" \/ last.arg \in {"array", "malformed"})
    \/ last.op = "kb_evaluate" /\ last.arg \in {"array", "malformed"}
    \/ last.op = "job_create_generic" /\ SplitStatements(last.arg) = <<>>

\* C12: a command whose input fails validation makes no network call, not
\* even the connect() that establishes the session, and renders a message.
C12_ValidationBeforeNetwork ==
    InvalidInput =>
        /\ last.conn = <<>>
        /\ last.sent = <<>>
        /\ ~last.raised
        /\ last.val.t = "str"

\* C13: describe_model, and ai describe-model on top of it, give the "not
\* found" outcome (an empty table; the command's "No description found")
\* whenever the last DESCRIBE they sent was answered with an empty table,
\* whether the statement before it came back empty or failed.
C13_DescribeNotFound ==
    (/\ last.op \in {"describe_model", "ai_describe_model"}
     /\ last.sent # <<>>
     /\ AnsweredEmpty(LastTrip)) =>
        /\ ~last.raised
        /\ last.op = "describe_model" => last.val = PyDf(EmptyDf)
        /\ last.op = "ai_describe_model" => last.val = PyStr("No description found")

\* C13 witness: the qualified DESCRIBE failed and the fallback came back empty
C13_Witness ==
    /\ last.op = "describe_model"
    /\ Len(last.sent) = 2
    /\ last.sent[1].resp # NoExc
    /\ last.sent[1].stmt.kind = "DESCRIBE_QUALIFIED"
    /\ AnsweredEmpty(last.sent[2])
    /\ last.val = PyDf(EmptyDf)

\* C14: when SHOW DATABASES is answered and lists the names under Database,
\* name or NAME, get_database_custom_check(n) is True exactly when n is one
\* of the databases on the server.
C14_AliasNormalised ==
    (/\ last.op = "get_database_custom_check"
     /\ last.sent # <<>>
     /\ LastTrip.resp = NoExc
     /\ listingCol \in {"Database", "name", "NAME"}) =>
        last.val = PyBool(last.name \in dbs)

\* C14 witness: the name was found in a listing under NAME
C14_Witness ==
    /\ last.op = "get_database_custom_check"
    /\ listingCol = "NAME"
    /\ last.sent # <<>>
    /\ LastTrip.resp = NoExc
    /\ last.name \in dbs
    /\ last.val = PyTrue

\* C15: both catalog normalizers read the names from the accepted alias the
\* listing has, and do not raise when the listing has none of them.
C15_ColumnNotFound ==
    (/\ last.op \in {"get_database_custom_check", "kb_list_databases"}
     /\ last.sent # <<>>
     /\ LastTrip.resp = NoExc) =>
        /\ ~last.raised
        /\ (last.op = "kb_list_databases" /\ listingCol \in {"Database", "name", "NAME"})
              => last.val.df.cols = <<listingCol>>

\* C17: query_kb_agent returns the answer of the first row when the result
\* has an answer column, the whole first row when it has rows but no such
\* column, the "no results" text when it is empty, and None when the
\* statement failed or there is no session.
C17_AgentAnswer ==
    last.op = "query_kb_agent" =>
        /\ ~last.raised
        /\ last.sent = <<>> => last.val = PyNone
        /\ last.sent # <<>> =>
              LET e == LastTrip
              IN  /\ e.resp # NoExc => last.val = PyNone
                  /\ AnsweredEmpty(e) => last.val = PyStr("Agent returned no results.")
                  /\ (e.resp = NoExc /\ ~DfEmpty(e.df) /\ HasCol(e.df, "answer")) =>
                        last.val = PyStr(e.df.rows[1][ColIndex(e.df, "answer")])
                  /\ (e.resp = NoExc /\ ~DfEmpty(e.df) /\ ~HasCol(e.df, "answer")) =>
                        last.val = PyDict([cols |-> e.df.cols, rows |-> <<e.df.rows[1]>>])

\* C17 witness: the result had a row but no answer column
C17_Witness ==
    /\ last.op = "query_kb_agent"
    /\ last.sent # <<>>
    /\ LastTrip.resp = NoExc
    /\ ~HasCol(LastTrip.df, "answer")
    /\ last.val.t = "dict"

\* the names between the brackets of a clause, in order
ListedNames(clause) ==
    SelectSeq(clause, LAMBDA t : t \notin {"=", "[", "]", "'", ","})
IsBare(clause) ==
    /\ Len(clause) = 5
    /\ clause[3] = "'" /\ clause[5] = "'"
IsArray(clause) == clause[3] = "[" /\ clause[Len(clause)] = "]"
Commas(clause) == Len(SelectSeq(clause, LAMBDA t : t = ","))

\* C18: create_knowledge_base emits a one-element content_columns or
\* metadata_columns list as option = 'c', never bracketed, and a longer list
\* as a bracketed, comma-separated list of the quoted names in input order.
C18_ColumnsClause ==
    (last.op \in {"content_columns", "metadata_columns"} /\ last.in # <<>>) =>
        /\ last.out[1] = last.op /\ last.out[2] = "="
        /\ Len(last.in) = 1 =>
              /\ IsBare(last.out)
              /\ last.out[4] = last.in[1]
              /\ "[" \notin {last.out[i] : i \in 1..Len(last.out)}
        /\ Len(last.in) >= 2 =>
              /\ IsArray(last.out)
              /\ Tail(ListedNames(last.out)) = last.in
              /\ Commas(last.out) = Len(last.in) - 1

\* C18 witness: a single metadata column, emitted bare
C18_Witness ==
    /\ last.op = "metadata_columns"
    /\ last.in = <<"c2">>
    /\ last.out = <<"metadata_columns", "=", "'", "c2", "'">>

\* C19: every builder of a list-valued option emits a single value bare and
\* only lists of two or more as a bracketed array.
C19_NoSingletonArray ==
    (/\ last.op \in {"content_columns", "metadata_columns",
                      "include_knowledge_bases", "include_tables"}
     /\ Len(last.in) = 1) => IsBare(last.out)

\* C20: the embedding_model literal has exactly the keys provider and
\* model_name, base_url exactly when a base URL is given and api_key exactly
\* when an API key is given, and every value that contains a double quote is
\* read back from its literal as it was put into the configuration.
C20_EmbeddingLiteral ==
    last.op = "embedding_model" =>
        LET given(x) == x \notin {NoText, <<>>}
            keys == [i \in 1..Len(last.out) |-> last.out[i].k]
            value(k) == CASE k = "provider" -> last.in.provider
                          [] k = "model_name" -> last.in.model_name
                          [] k = "base_url" -> RStripSlash(last.in.base_url)
                          [] k = "api_key" -> last.in.api_key
        IN  /\ keys = <<"provider", "model_name">>
                       \o (IF given(last.in.base_url) THEN <<"base_url">> ELSE <<>>)
                       \o (IF given(last.in.api_key) THEN <<"api_key">> ELSE <<>>)
            /\ \A i \in 1..Len(last.out) :
                  (\E j \in 1..Len(value(last.out[i].k)) : value(last.out[i].k)[j] = "\"")
                  => ReadLiteral(last.out[i].lit)
                        = [ok |-> TRUE, v |-> value(last.out[i].k)]

\* C16: of a describe result of several rows the command shows the first row
\* whose name equals the requested one without regard to case, else the
\* first row, and warns, whether the names are under name or NAME.
C16_FirstMatchingRow ==
    (last.op = "select_described" /\ Len(last.in.rows) > 1) =>
        LET matches == {i \in 1..Len(last.in.rows) :
                           LowerWord(last.in.rows[i][1]) = LowerWord(ModelName)}
            pick == IF matches = {} THEN 1
                    ELSE CHOOSE i \in matches : \A j \in matches : i <= j
        IN  /\ ~last.out.raised
            /\ last.out.warned
            /\ last.out.df.rows = <<last.in.rows[pick]>>

\* a text between single quotes, and between triple quotes
SingleQuoted(v) == <<"'">> \o v \o <<"'">>
TripleQuoted(v) == <<"'", "'", "'">> \o v \o <<"'", "'", "'">>

\* C21: every string value a builder puts between single quotes has each of
\* its single quotes doubled: the column names of create_knowledge_base, the
\* names in the lists of create_kb_agent, its model name and API key, and
\* the USING values of create_model_from_query.
C21_QuotesDoubled ==
    /\ (last.op \in {"content_columns", "metadata_columns",
                      "include_knowledge_bases", "include_tables"}
         /\ last.in # <<>>)
        => Tail(ListedNames(last.out)) = DoubledQuotes(last.in)
    /\ last.op = "create_kb_agent" =>
           \A i \in 1..Len(last.out) :
              last.out[i].k \in {"model", "google_api_key"}
              => last.out[i].lit = SingleQuoted(EscapeSingle(last.in[last.out[i].k]))
    /\ last.op = "create_model_from_query" =>
           \A i \in 1..Len(last.out) :
              last.out[i].k = "engine"
              => last.out[i].lit = SingleQuoted(EscapeSingle(last.in.engine))

\* C22: create_kb_agent and create_model_from_query both emit a given
\* prompt template between triple quotes.
C22_TripleQuotedPrompt ==
    (/\ last.op \in {"create_kb_agent", "create_model_from_query"}
     /\ last.in.prompt_template \notin {NoText, <<>>})
    => \E i \in 1..Len(last.out) :
          /\ last.out[i].k = "prompt_template"
          /\ last.out[i].lit = TripleQuoted(EscapeSingle(last.in.prompt_template))

\* C23: of filters whose entries are a string or a dictionary of one
\* operator, each entry gives one conjunct, col > v, col >= v, col < v,
\* col <= v or col = 's', after the content predicate and in filter order,
\* and an entry with an unsupported operator gives none.
C23_FilterTranslation ==
    LET f == last.in.metadata_filters
        simple(e) == e.val.t = "str" \/ (e.val.t = "dict" /\ Len(e.val.ops) = 1)
        adds(e) == e.val.t = "str"
                   \/ e.val.ops[1].op \in {"$gt", "$gte", "$lt", "$lte"}
        conjunct(e) ==
            IF e.val.t = "str"
            THEN [col |-> e.col, op |-> "=", val |-> SingleQuoted(EscapeSingle(e.val.v))]
            ELSE [col |-> e.col,
                  op |-> CASE e.val.ops[1].op = "$gt" -> ">"
                           [] e.val.ops[1].op = "$gte" -> ">="
                           [] e.val.ops[1].op = "$lt" -> "<"
                           [] e.val.ops[1].op = "$lte" -> "<=",
                  val |-> e.val.ops[1].v]
        place(i) == 1 + Cardinality({j \in 1..i : adds(f[j])})
    IN  (/\ last.op = "select_from_knowledge_base"
         /\ \A i \in 1..Len(f) : simple(f[i]))
        => /\ last.out[1] = [col |-> "content", op |-> "=",
                             val |-> SingleQuoted(EscapeSingle(last.in.query_text))]
           /\ Len(last.out) = 1 + Cardinality({j \in 1..Len(f) : adds(f[j])})
           /\ \A i \in 1..Len(f) : adds(f[i]) => last.out[place(i)] = conjunct(f[i])

\* C23 witness: score > 5, an unsupported operator and author = 'a'
C23_Witness ==
    /\ last.op = "select_from_knowledge_base"
    /\ Len(last.in.metadata_filters) = 3
    /\ last.in.metadata_filters[1].col = "score"
    /\ last.in.metadata_filters[1].val.ops = <<[op |-> "$gt", v |-> <<"5">>]>>
    /\ last.in.metadata_filters[2].val.ops = <<[op |-> "$ne", v |-> <<"5">>]>>
    /\ last.in.metadata_filters[3].col = "author"
    /\ last.in.metadata_filters[3].val.t = "str"
    /\ last.in.metadata_filters[3].val.v = <<"a">>
    /\ Len(last.out) = 3
    /\ last.out[2] = [col |-> "score", op |-> ">", val |-> <<"5">>]
    /\ last.out[3] = [col |-> "author", op |-> "=", val |-> <<"'", "a", "'">>]

\* the clauses after the closing parenthesis, and a clause's keyword
JobClauses == SubSeq(last.out, 4, Len(last.out))
Keyword(clause) == IF clause[1] \in {"every", "Every"} THEN "EVERY" ELSE clause[1]
Given(x) == x \notin {NoText, <<>>}

\* C24: for a non-empty schedule the statement of create_job has exactly one
\* clause that begins with EVERY: the schedule itself when it already begins
\* with EVERY in any case, else the schedule after the word EVERY.
C24_ScheduleClause ==
    (last.op = "create_job" /\ Given(last.in.schedule_interval)) =>
        LET every == {i \in 1..Len(JobClauses) : Keyword(JobClauses[i]) = "EVERY"}
            given == last.in.schedule_interval
        IN  /\ Cardinality(every) = 1
            /\ \A i \in every :
                  JobClauses[i] = IF Keyword(given) = "EVERY" THEN given
                                  ELSE <<"EVERY">> \o given

\* C24 witness: the schedule 1 hour gives the clause EVERY 1 hour
C24_Witness ==
    /\ last.op = "create_job"
    /\ last.in.schedule_interval = <<"1", "hour">>
    /\ \E i \in 1..Len(JobClauses) : JobClauses[i] = <<"EVERY", "1", "hour">>

\* C25: the statement of create_job is the header, the statements in input
\* order and the closing parenthesis, then the clauses START, END, EVERY, IF
\* in this order, each present exactly when its argument is given.
C25_ClauseOrder ==
    last.op = "create_job" =>
        /\ SelectSeq(last.out[2], LAMBDA t : t # ";") = last.in.statements
        /\ last.out[3] = <<")">>
        /\ [i \in 1..Len(JobClauses) |-> Keyword(JobClauses[i])]
              = (IF Given(last.in.start_date) THEN <<"START">> ELSE <<>>)
                \o (IF Given(last.in.end_date) THEN <<"END">> ELSE <<>>)
                \o (IF Given(last.in.schedule_interval) THEN <<"EVERY">> ELSE <<>>)
                \o (IF Given(last.in.if_condition) THEN <<"IF">> ELSE <<>>)

\* C25 witness: all four clauses after two statements
C25_Witness ==
    /\ last.op = "create_job"
    /\ last.in.statements = <<"s2", "s1">>
    /\ last.out[2] = <<"s2", ";", "s1">>
    /\ Len(JobClauses) = 4
    /\ JobClauses[1] = <<"START", "'", "d1", "'">>
    /\ JobClauses[4] = <<"IF", "(", "c", ")">>

C27_CountWithGeneration ==
    last.op = "kb_evaluate" =>
        ((last.out.emitted /\ last.out.count # <<>>)
         <=> (last.in.generate_data_flag \/ Given(last.in.generate_data_from_sql)))

\* the round trips of the last operation that sent a statement of kind k,
\* and whether round trip j listed the datasource under an accepted column
TripsOf(k) == {i \in 1..Len(last.sent) : last.sent[i].stmt.kind = k}
ListedAt(j, ds_name) ==
    /\ last.sent[j].stmt.kind = "SHOW_DATABASES"
    /\ last.sent[j].resp = NoExc
    /\ DbColumn(last.sent[j].df) # None
    /\ ds_name \in ColValues(last.sent[j].df, DbColumn(last.sent[j].df))

C29_HandlesInSync ==
    /\ []((server = None) <=> (project = None))
    /\ [][IF last'.conn # <<>>
          THEN (project' # None) <=> last'.conn[Len(last'.conn)]
          ELSE server' = server /\ project' = project]_vars

\* C29 witness: a handler operation without a session connected by itself
\* and left both handles set
C29_Witness ==
    /\ last.op \in HandlerOps
    /\ last.pre = None
    /\ last.conn = <<TRUE>>
    /\ server # None /\ project # None

\* C30: refresh_model never raises and returns True exactly when the last
\* RETRAIN round trip was answered, False when it failed or was never sent,
\* whatever the status lookup after it gave.
C30_RefreshResult ==
    last.op = "refresh_model" =>
        LET retrains == TripsOf("RETRAIN")
            answered == /\ retrains # {}
                        /\ \A k \in retrains :
                              (\A m \in retrains : m <= k) => last.sent[k].resp = NoExc
        IN  /\ ~last.raised
            /\ last.val \in {PyTrue, PyFalse}
            /\ last.val = PyTrue <=> answered

\* C30 witness: the RETRAIN was answered, the status lookup failed, and the
\* result is True
C30_Witness ==
    /\ last.op = "refresh_model"
    /\ last.val = PyTrue
    /\ \E k \in TripsOf("RETRAIN") : last.sent[k].resp = NoExc
    /\ \E k \in TripsOf("SELECT_STATUS") : last.sent[k].resp # NoExc
    /\ \A k \in TripsOf("SELECT_STATUS") : last.sent[k].resp # NoExc

====
